---- MODULE Spec2Model ----
(***************************************************************************)
(* Order fulfilment of the Metro Shop bot (src/bottest.py): the products,  *)
(* orders, order_workers and worker_payouts tables, and the handlers that  *)
(* write them: buy_callback, payment_photo_handler, admin_decision,        *)
(* performer_action, order_progress_callback (with                         *)
(* calculate_and_record_payouts), poll_cloudtips_once, and the admin's     *)
(* product price edit and product deletion.                                *)
(*                                                                         *)
(* The application is built without concurrent_updates and every database  *)
(* call is synchronous, so a handler runs from its first read to its last  *)
(* write without another handler in between: each handler is one action.   *)
(* Every db_execute commits on its own, so a handler that raises (or a     *)
(* process that stops) keeps the writes it has made so far.                *)
(* Money is kept in kopecks (hundredths), timestamps are drawn from Times, *)
(* 0 stands for SQL NULL in integer columns.                               *)
(***************************************************************************)
EXTENDS Integers, Sequences, FiniteSets, TLC

VARIABLES
    users,          \* table users: the tg_id of each row, row id = position
    products,       \* table products: price and presence, row id = position
    orders,         \* table orders: one record per row, row id = position
    order_workers,  \* table order_workers: rows in insertion (id) order
    worker_payouts, \* table worker_payouts: rows in insertion (id) order
    paid_notices,   \* per order: "payment confirmed" messages sent to the buyer
    reply,          \* what the last handler answered
    outbox,         \* the other messages the last handler or poll sent
    reviews,        \* table reviews: rows in insertion (id) order
    review_flow,    \* user_data['review_flow'] of the users who have one
    attempts        \* per order id: payment records the poll job has processed

vars ==
    <<users, products, orders, order_workers, worker_payouts, paid_notices,
      reply, outbox, reviews, review_flow, attempts>>

----------------------------------------------------------------------------
\* Bounds of the model.
MaxOrders == 1
MaxTime == 2
MaxPayouts == 2
MaxNotices == 2
MaxPolls == 3
MaxReviews == 2
NumUsers == 5

\* Configuration of the program.
MAX_WORKERS_PER_ORDER == 3
WORKER_PERCENT == 70   \* 0.7, in hundredths

ADMIN_IDS == {1, 2}
TgUsers == 1..NumUsers
Times == 1..MaxTime
Clock == {1}                 \* the reading of a clock that stands still
Prices == {30000}          \* products.price of the catalogue, in kopecks
NewPrices == {45000}       \* the prices an admin edits a product to
FileIds == {1}             \* Telegram file ids of the screenshots
Screenshots == {1, 2}      \* file ids of a first and of a second screenshot
NULL == 0
NoNotes == <<"NULL", 0>>

\* The catalogue the admin has entered before the first order: one product
\* at the price of Prices (a row deleted later keeps its id, AUTOINCREMENT).
Catalogue ==
    LET p == CHOOSE x \in Prices : TRUE
    IN  <<[price |-> p, present |-> TRUE]>>
ProductIds == 1..Len(Catalogue)
UnknownPid == Len(Catalogue) + 1   \* an id no product ever had

PaymentStatuses == {"paid", "pending", "failed", "unknown"}
Stages == {"in_progress", "delivering", "done"}
Decisions == {"confirm", "reject"}

\* The order ids the callback data and the polled records carry: the buttons
\* and payments of the first order. Further orders (up to MaxOrders) are
\* bought and given evidence.
OrderIds == {1}

\* The texts a user sends while a review flow is open, and int(text) for
\* those that int() accepts.
Texts == {"/cancel", "5", "6", "good"}
IntOf == ("0" :> 0) @@ ("5" :> 5) @@ ("6" :> 6)

----------------------------------------------------------------------------
\* Helpers over the tables.

is_admin_tg(tg_id) == tg_id \in ADMIN_IDS

\* SELECT ... FROM order_workers WHERE order_id=? ORDER BY id
WorkersOf(oid) == SelectSeq(order_workers, LAMBDA r : r.order_id = oid)
\* SELECT ... FROM worker_payouts WHERE order_id=? ORDER BY id
PayoutsOf(oid) == SelectSeq(worker_payouts, LAMBDA r : r.order_id = oid)

\* current_ids / assigned_ids: the worker_id column of the order's rows
WorkerIds(oid) ==
    {order_workers[i].worker_id :
        i \in {j \in 1..Len(order_workers) : order_workers[j].order_id = oid}}

\* users.id of a tg user, 0 when the user has no row
UserRow(tg) ==
    IF \E i \in 1..Len(users) : users[i] = tg
    THEN CHOOSE i \in 1..Len(users) : users[i] = tg
    ELSE 0

\* SELECT ... FROM products WHERE id=? returns a row
ProductFound(pid) == pid \in 1..Len(products) /\ products[pid].present

\* SELECT name FROM products WHERE id=<the order's product_id> returns a row;
\* the handlers index the result with [0][0] and raise when it does not
HasProduct(oid) == ProductFound(orders[oid].product_id)

\* round(x / d) as Python rounds a float: to nearest, ties to even
RoundDiv(x, d) ==
    LET q == x \div d
        r == x % d
    IN  IF 2 * r < d THEN q
        ELSE IF 2 * r > d THEN q + 1
        ELSE IF q % 2 = 0 THEN q ELSE q + 1

----------------------------------------------------------------------------
Init ==
    /\ users = <<>>
    /\ products = Catalogue
    /\ orders = <<>>
    /\ order_workers = <<>>
    /\ worker_payouts = <<>>
    /\ paid_notices = <<>>
    /\ reply = "none"
    /\ outbox = {}
    /\ reviews = <<>>
    /\ review_flow = <<>>
    /\ attempts = [o \in OrderIds |-> 0]

\* buy_callback without the product lookup test of line 1040: an order is
\* created for a product that is not in the table, with no price
buy_without_lookup(tg, pid) ==
    /\ UNCHANGED <<reviews, review_flow, attempts>>
    /\ Len(orders) < MaxOrders
    /\ LET users1 == IF UserRow(tg) = 0 THEN Append(users, tg) ELSE users
           uid == IF UserRow(tg) = 0 THEN Len(users) + 1 ELSE UserRow(tg)
       IN  /\ users' = users1
           /\ orders' = Append(orders,
                  [user_id |-> uid, product_id |-> pid,
                   price |-> IF ProductFound(pid)
                             THEN products[pid].price ELSE NULL,
                   status |-> "awaiting_screenshot",
                   payment_screenshot_file_id |-> NULL,
                   admin_notes |-> NoNotes,
                   started_at |-> NULL, done_at |-> NULL])
    /\ paid_notices' = Append(paid_notices, 0)
    /\ reply' = "PaymentLink"
    /\ outbox' = {}
    /\ UNCHANGED <<products, order_workers, worker_payouts>>

\* the body of buy_callback, for a table of orders that the model lets
\* grow to cap rows; the order copies the product's price
buy_order(tg, pid, cap) ==
    /\ UNCHANGED <<reviews, review_flow, attempts>>
    /\ IF ~ProductFound(pid)
       THEN /\ reply' = "ProductNotFound"
            /\ outbox' = {}
            /\ UNCHANGED <<users, products, orders, order_workers,
                           worker_payouts, paid_notices>>
       ELSE /\ Len(orders) < cap
            /\ LET users1 == IF UserRow(tg) = 0 THEN Append(users, tg) ELSE users
                   uid == IF UserRow(tg) = 0 THEN Len(users) + 1 ELSE UserRow(tg)
               IN  /\ users' = users1
                   /\ orders' = Append(orders,
                          [user_id |-> uid, product_id |-> pid,
                           price |-> products[pid].price,
                           status |-> "awaiting_screenshot",
                           payment_screenshot_file_id |-> NULL,
                           admin_notes |-> NoNotes,
                           started_at |-> NULL, done_at |-> NULL])
            /\ paid_notices' = Append(paid_notices, 0)
            /\ reply' = "PaymentLink"
            /\ outbox' = {}
            /\ UNCHANGED <<products, order_workers, worker_payouts>>

\* buy_callback: the buy:<pid> button
buy_callback(tg, pid) == buy_order(tg, pid, MaxOrders)

\* payment_photo_handler without the status test of its SELECT: the photo
\* goes to the user's latest order whatever its status
payment_photo_any_status(tg, file_id) ==
    LET uid == UserRow(tg)
        own == {i \in 1..Len(orders) : orders[i].user_id = uid}
    IN  /\ UNCHANGED <<users, products, order_workers, worker_payouts,
                       paid_notices, reviews, review_flow, attempts>>
        /\ IF uid = 0 \/ own = {}
           THEN /\ reply' = "ChooseProductFirst"
                /\ outbox' = {}
                /\ UNCHANGED orders
           ELSE LET oid == CHOOSE i \in own : \A j \in own : j <= i
                IN  /\ orders' = [orders EXCEPT
                           ![oid].payment_screenshot_file_id = file_id,
                           ![oid].status = "pending_verification"]
                    /\ reply' = "SentToAdmins"
                    /\ outbox' = {"AdminGroupOrder"}

\* payment_photo_handler with an UPDATE that has no id: every order of the
\* user that awaits the screenshot takes the photo
payment_photo_all_awaiting(tg, file_id) ==
    LET uid == UserRow(tg)
        awaiting == {i \in 1..Len(orders) :
                        /\ orders[i].user_id = uid
                        /\ orders[i].status = "awaiting_screenshot"}
    IN  /\ UNCHANGED <<users, products, order_workers, worker_payouts,
                       paid_notices, reviews, review_flow, attempts>>
        /\ IF uid = 0 \/ awaiting = {}
           THEN /\ reply' = IF uid = 0 THEN "ChooseProductFirst"
                                      ELSE "NoAwaitingOrder"
                /\ outbox' = {}
                /\ UNCHANGED orders
           ELSE /\ orders' = [i \in 1..Len(orders) |->
                       IF i \in awaiting
                       THEN [orders[i] EXCEPT
                               !.payment_screenshot_file_id = file_id,
                               !.status = "pending_verification"]
                       ELSE orders[i]]
                /\ reply' = "SentToAdmins"
                /\ outbox' = {"AdminGroupOrder"}

\* payment_photo_handler: a photo sent by tg outside the admin chat
payment_photo_handler(tg, file_id) ==
    /\ UNCHANGED <<reviews, review_flow, attempts>>
    /\ LET uid == UserRow(tg)
           awaiting == {i \in 1..Len(orders) :
                           /\ orders[i].user_id = uid
                           /\ orders[i].status = "awaiting_screenshot"}
       IN  IF uid = 0
           THEN /\ reply' = "ChooseProductFirst"
                /\ outbox' = {}
                /\ UNCHANGED <<users, products, orders, order_workers,
                               worker_payouts, paid_notices>>
           ELSE IF awaiting = {}
           THEN /\ reply' = "NoAwaitingOrder"
                /\ outbox' = {}
                /\ UNCHANGED <<users, products, orders, order_workers,
                               worker_payouts, paid_notices>>
           ELSE LET oid == CHOOSE i \in awaiting : \A j \in awaiting : j <= i
                IN  /\ orders' = [orders EXCEPT
                           ![oid].payment_screenshot_file_id = file_id,
                           ![oid].status = "pending_verification"]
                    /\ IF HasProduct(oid)
                       THEN reply' = "SentToAdmins" /\ outbox' = {"AdminGroupOrder"}
                       ELSE reply' = "Error" /\ outbox' = {"OwnerError"}
                    /\ UNCHANGED <<users, products, order_workers,
                                   worker_payouts, paid_notices>>

\* admin_decision without the is_admin_tg test of line 1211
admin_decision_by_anyone(tg, oid, action) ==
    /\ UNCHANGED <<reviews, review_flow, attempts>>
    /\ IF oid \notin 1..Len(orders)
       THEN /\ reply' = "NotFound"
            /\ outbox' = {}
            /\ UNCHANGED <<users, products, orders, order_workers,
                           worker_payouts, paid_notices>>
       ELSE IF ~HasProduct(oid)
       THEN /\ reply' = "Error"
            /\ outbox' = {"OwnerError"}
            /\ UNCHANGED <<users, products, orders, order_workers,
                           worker_payouts, paid_notices>>
       ELSE IF action = "confirm"
       THEN /\ paid_notices[oid] < MaxNotices
            /\ orders' = [orders EXCEPT ![oid].status = "paid",
                                        ![oid].admin_notes = <<"confirm", tg>>]
            /\ paid_notices' = [paid_notices EXCEPT ![oid] = @ + 1]
            /\ reply' = "Confirmed"
            /\ outbox' = {"BuyerPaid"}
            /\ UNCHANGED <<users, products, order_workers, worker_payouts>>
       ELSE /\ orders' = [orders EXCEPT ![oid].status = "rejected",
                                        ![oid].admin_notes = <<"reject", tg>>]
            /\ reply' = "Rejected"
            /\ outbox' = {"BuyerRejected"}
            /\ UNCHANGED <<users, products, order_workers, worker_payouts,
                           paid_notices>>

\* admin_decision: the confirm:<id> and reject:<id> buttons
admin_decision(tg, oid, action) ==
    /\ UNCHANGED <<reviews, review_flow, attempts>>
    /\ IF ~is_admin_tg(tg)
       THEN /\ reply' = "AdminsOnly"
            /\ outbox' = {}
            /\ UNCHANGED <<users, products, orders, order_workers,
                           worker_payouts, paid_notices>>
       ELSE IF oid \notin 1..Len(orders)
       THEN /\ reply' = "NotFound"
            /\ outbox' = {}
            /\ UNCHANGED <<users, products, orders, order_workers,
                           worker_payouts, paid_notices>>
       ELSE IF ~HasProduct(oid)
       THEN /\ reply' = "Error"
            /\ outbox' = {"OwnerError"}
            /\ UNCHANGED <<users, products, orders, order_workers,
                           worker_payouts, paid_notices>>
       ELSE IF action = "confirm"
       THEN /\ paid_notices[oid] < MaxNotices
            /\ orders' = [orders EXCEPT ![oid].status = "paid",
                                        ![oid].admin_notes = <<"confirm", tg>>]
            /\ paid_notices' = [paid_notices EXCEPT ![oid] = @ + 1]
            /\ reply' = "Confirmed"
            /\ outbox' = {"BuyerPaid"}
            /\ UNCHANGED <<users, products, order_workers, worker_payouts>>
       ELSE /\ orders' = [orders EXCEPT ![oid].status = "rejected",
                                        ![oid].admin_notes = <<"reject", tg>>]
            /\ reply' = "Rejected"
            /\ outbox' = {"BuyerRejected"}
            /\ UNCHANGED <<users, products, order_workers, worker_payouts,
                           paid_notices>>

\* take without the capacity test of line 1323
take_uncapped(tg, oid) ==
    IF tg \in WorkerIds(oid)
    THEN /\ reply' = "AlreadyClaimed"
         /\ UNCHANGED order_workers
    ELSE /\ order_workers' = Append(order_workers,
                                    [order_id |-> oid, worker_id |-> tg])
         /\ reply' = "Taken"

\* take without the membership test of line 1317
take_unchecked(tg, oid) ==
    IF Len(WorkersOf(oid)) >= MAX_WORKERS_PER_ORDER
    THEN /\ reply' = "SlotsExhausted"
         /\ UNCHANGED order_workers
    ELSE /\ order_workers' = Append(order_workers,
                                    [order_id |-> oid, worker_id |-> tg])
         /\ reply' = "Taken"

\* take with the capacity test ahead of the membership test
take_cap_first(tg, oid) ==
    IF Len(WorkersOf(oid)) >= MAX_WORKERS_PER_ORDER
    THEN /\ reply' = "SlotsExhausted"
         /\ UNCHANGED order_workers
    ELSE IF tg \in WorkerIds(oid)
    THEN /\ reply' = "AlreadyClaimed"
         /\ UNCHANGED order_workers
    ELSE /\ order_workers' = Append(order_workers,
                                    [order_id |-> oid, worker_id |-> tg])
         /\ reply' = "Taken"

\* the branch of performer_action for take
take(tg, oid) ==
    IF tg \in WorkerIds(oid)
    THEN /\ reply' = "AlreadyClaimed"
         /\ UNCHANGED order_workers
    ELSE IF Len(WorkersOf(oid)) >= MAX_WORKERS_PER_ORDER
    THEN /\ reply' = "SlotsExhausted"
         /\ UNCHANGED order_workers
    ELSE /\ order_workers' = Append(order_workers,
                                    [order_id |-> oid, worker_id |-> tg])
         /\ reply' = "Taken"

\* leave with a DELETE that has no worker_id test: every row of the order
\* goes
leave_all(tg, oid) ==
    IF tg \notin WorkerIds(oid)
    THEN /\ reply' = "NotAssigned"
         /\ UNCHANGED order_workers
    ELSE /\ order_workers' = SelectSeq(order_workers,
                 LAMBDA r : r.order_id # oid)
         /\ reply' = "Left"

\* the branch of performer_action for leave
leave(tg, oid) ==
    IF tg \notin WorkerIds(oid)
    THEN /\ reply' = "NotAssigned"
         /\ UNCHANGED order_workers
    ELSE /\ order_workers' = SelectSeq(order_workers,
                 LAMBDA r : ~(r.order_id = oid /\ r.worker_id = tg))
         /\ reply' = "Left"

\* what performer_action sends after answering: the caption update that
\* follows a take or a leave raises when the order's product is gone
caption_update(oid) ==
    outbox' = IF /\ reply' \in {"Taken", "Left"}
                 /\ ~HasProduct(oid)
              THEN {"OwnerError"} ELSE {}

\* performer_action with a status test that lets pending_verification pass
performer_action_before_paid(tg, oid, action) ==
    /\ UNCHANGED <<reviews, review_flow, attempts>>
    /\ UNCHANGED <<users, products, orders, worker_payouts, paid_notices>>
    /\ IF oid \notin 1..Len(orders)
       THEN /\ reply' = "NotFound"
            /\ outbox' = {}
            /\ UNCHANGED order_workers
       ELSE IF orders[oid].status \notin {"pending_verification", "paid",
                                          "in_progress", "delivering"}
       THEN /\ reply' = "InvalidState"
            /\ outbox' = {}
            /\ UNCHANGED order_workers
       ELSE /\ IF action = "take" THEN take(tg, oid) ELSE leave(tg, oid)
            /\ caption_update(oid)

\* performer_action with a take that also starts the order: the first
\* worker's take writes status in_progress into the order row
performer_action_starting(tg, oid, action) ==
    /\ UNCHANGED <<reviews, review_flow, attempts>>
    /\ UNCHANGED <<users, products, worker_payouts, paid_notices>>
    /\ IF oid \notin 1..Len(orders)
       THEN /\ reply' = "NotFound"
            /\ outbox' = {}
            /\ UNCHANGED <<orders, order_workers>>
       ELSE IF orders[oid].status \notin {"paid", "in_progress", "delivering"}
       THEN /\ reply' = "InvalidState"
            /\ outbox' = {}
            /\ UNCHANGED <<orders, order_workers>>
       ELSE /\ IF action = "take" THEN take(tg, oid) ELSE leave(tg, oid)
            /\ orders' = IF action = "take" /\ WorkersOf(oid) = <<>>
                         THEN [orders EXCEPT ![oid].status = "in_progress"]
                         ELSE orders
            /\ caption_update(oid)

\* performer_action with the status test of line 1306 made for take only:
\* a leave is carried out whatever the order's status
performer_action_leave_any(tg, oid, action) ==
    /\ UNCHANGED <<reviews, review_flow, attempts>>
    /\ UNCHANGED <<users, products, orders, worker_payouts, paid_notices>>
    /\ IF oid \notin 1..Len(orders)
       THEN /\ reply' = "NotFound"
            /\ outbox' = {}
            /\ UNCHANGED order_workers
       ELSE IF /\ action = "take"
               /\ orders[oid].status \notin {"paid", "in_progress",
                                             "delivering"}
       THEN /\ reply' = "InvalidState"
            /\ outbox' = {}
            /\ UNCHANGED order_workers
       ELSE /\ IF action = "take" THEN take(tg, oid) ELSE leave(tg, oid)
            /\ caption_update(oid)

\* performer_action without the status test of line 1306
performer_action_any_status(tg, oid, action) ==
    /\ UNCHANGED <<reviews, review_flow, attempts>>
    /\ UNCHANGED <<users, products, orders, worker_payouts, paid_notices>>
    /\ IF oid \notin 1..Len(orders)
       THEN /\ reply' = "NotFound"
            /\ outbox' = {}
            /\ UNCHANGED order_workers
       ELSE /\ IF action = "take" THEN take(tg, oid) ELSE leave(tg, oid)
            /\ caption_update(oid)

\* performer_action: the take:<id> and leave:<id> buttons
performer_action(tg, oid, action) ==
    /\ UNCHANGED <<reviews, review_flow, attempts>>
    /\ UNCHANGED <<users, products, orders, worker_payouts, paid_notices>>
    /\ IF oid \notin 1..Len(orders)
       THEN /\ reply' = "NotFound"
            /\ outbox' = {}
            /\ UNCHANGED order_workers
       ELSE IF orders[oid].status \notin {"paid", "in_progress", "delivering"}
       THEN /\ reply' = "InvalidState"
            /\ outbox' = {}
            /\ UNCHANGED order_workers
       ELSE /\ IF action = "take" THEN take(tg, oid) ELSE leave(tg, oid)
            /\ caption_update(oid)

\* calculate_and_record_payouts crediting the whole share to the owner (0)
\* when the order has no workers
payouts_with_owner_row(oid) ==
    LET price == orders[oid].price
        workers == WorkersOf(oid)
        num == Len(workers)
        total_for_workers == RoundDiv(price * WORKER_PERCENT, 100)
        per_worker == IF num > 0 THEN RoundDiv(total_for_workers, num) ELSE 0
    IN  IF num = 0
        THEN <<[order_id |-> oid, worker_id |-> 0,
                amount |-> total_for_workers]>>
        ELSE [i \in 1..num |-> [order_id |-> oid,
                                worker_id |-> workers[i].worker_id,
                                amount |-> per_worker]]

\* the rows calculate_and_record_payouts inserts for order oid
calculate_and_record_payouts(oid) ==
    LET price == orders[oid].price
        workers == WorkersOf(oid)
        num == Len(workers)
        total_for_workers == RoundDiv(price * WORKER_PERCENT, 100)
        per_worker == IF num > 0 THEN RoundDiv(total_for_workers, num) ELSE 0
    IN  [i \in 1..num |-> [order_id |-> oid,
                           worker_id |-> workers[i].worker_id,
                           amount |-> per_worker]]

\* the UPDATE of order_progress_callback for the requested stage
progress_update(o, new_status, now) ==
    IF new_status = "in_progress"
    THEN [o EXCEPT !.status = new_status, !.started_at = now]
    ELSE IF new_status = "delivering"
    THEN [o EXCEPT !.status = new_status]
    ELSE IF new_status = "done"
    THEN [o EXCEPT !.status = new_status, !.done_at = now]
    ELSE [o EXCEPT !.status = new_status]

\* order_progress_callback past its authorisation test: the order lookup,
\* the UPDATE, the product lookup (which raises when the product is gone,
\* after the UPDATE), the notices and, for done, the payouts
advance(oid, new_status, now) ==
    /\ UNCHANGED <<reviews, review_flow, attempts>>
    /\ IF oid \notin 1..Len(orders)
       THEN /\ reply' = "NotFound"
            /\ outbox' = {}
            /\ UNCHANGED <<users, products, orders, order_workers,
                           worker_payouts, paid_notices>>
       ELSE /\ orders' = [orders EXCEPT
                             ![oid] = progress_update(@, new_status, now)]
            /\ IF ~HasProduct(oid)
               THEN /\ reply' = "Error"
                    /\ outbox' = {"OwnerError"}
                    /\ UNCHANGED worker_payouts
               ELSE IF new_status = "done"
               THEN /\ Len(worker_payouts) + Len(WorkersOf(oid)) <= MaxPayouts
                    /\ worker_payouts' =
                           worker_payouts \o calculate_and_record_payouts(oid)
                    /\ reply' = "StatusChanged"
                    /\ outbox' = IF Len(WorkersOf(oid)) = 0
                                 THEN {"BuyerStatus", "OwnerNoWorkers"}
                                 ELSE {"BuyerStatus", "PayoutSummary",
                                       "ReviewPrompt"}
               ELSE /\ reply' = "StatusChanged"
                    /\ outbox' = {"BuyerStatus"}
                    /\ UNCHANGED worker_payouts
            /\ UNCHANGED <<users, products, order_workers, paid_notices>>

\* order_progress_callback without the authorisation test of line 1391
order_progress_callback_open(tg, oid, new_status, now) ==
    advance(oid, new_status, now)

\* order_progress_callback: the status:<id>:<stage> buttons
order_progress_callback(tg, oid, new_status, now) ==
    /\ UNCHANGED <<reviews, review_flow, attempts>>
    /\ IF tg \notin WorkerIds(oid) /\ ~is_admin_tg(tg)
       THEN /\ reply' = "Unauthorized"
            /\ outbox' = {}
            /\ UNCHANGED <<users, products, orders, order_workers,
                           worker_payouts, paid_notices>>
       ELSE advance(oid, new_status, now)

\* order_progress_callback for status:<id>:done when the process stops
\* after the UPDATE of line 1415 and the first k INSERTs of
\* calculate_and_record_payouts: the committed writes stay, nothing is sent
order_progress_stopped(tg, oid, now, k) ==
    /\ UNCHANGED <<reviews, review_flow, attempts>>
    /\ tg \in WorkerIds(oid) \/ is_admin_tg(tg)
    /\ oid \in 1..Len(orders)
    /\ k \in 0..Len(WorkersOf(oid))
    /\ k = 0 \/ HasProduct(oid)
    /\ Len(worker_payouts) + k <= MaxPayouts
    /\ orders' = [orders EXCEPT ![oid] = progress_update(@, "done", now)]
    /\ worker_payouts' =
           worker_payouts \o SubSeq(calculate_and_record_payouts(oid), 1, k)
    /\ reply' = "none"
    /\ outbox' = {}
    /\ UNCHANGED <<users, products, order_workers, paid_notices>>

\* poll_cloudtips_once acting on every record but a failed one
poll_any_status(order_id, status) ==
    IF /\ status # "failed"
       /\ order_id \in 1..Len(orders)
       /\ orders[order_id].status \notin {"paid", "done"}
    THEN /\ paid_notices[order_id] < MaxNotices
         /\ orders' = [orders EXCEPT
                ![order_id].status = "paid",
                ![order_id].admin_notes = <<"cloudtips", 0>>]
         /\ paid_notices' = [paid_notices EXCEPT ![order_id] = @ + 1]
         /\ outbox' = {"BuyerPaid", "AdminGroupPaid"}
         /\ UNCHANGED <<users, products, order_workers, worker_payouts,
                        reply, reviews, review_flow, attempts>>
    ELSE UNCHANGED vars

\* the body of the loop of poll_cloudtips_once for one payment record: only
\* a record whose status is paid is acted on
payment_record(order_id, status) ==
    IF /\ status = "paid"
       /\ order_id \in 1..Len(orders)
       /\ orders[order_id].status \notin {"paid", "done"}
    THEN /\ paid_notices[order_id] < MaxNotices
         /\ orders' = [orders EXCEPT
                ![order_id].status = "paid",
                ![order_id].admin_notes = <<"cloudtips", 0>>]
         /\ paid_notices' = [paid_notices EXCEPT ![order_id] = @ + 1]
         /\ outbox' = {"BuyerPaid", "AdminGroupPaid"}
         /\ UNCHANGED <<users, products, order_workers, worker_payouts,
                        reply, reviews, review_flow>>
    ELSE UNCHANGED <<users, products, orders, order_workers, worker_payouts,
                     paid_notices, reply, outbox, reviews, review_flow>>

\* poll_cloudtips_once: one payment record of the polled list
poll_cloudtips_once(order_id, status) ==
    /\ payment_record(order_id, status)
    /\ UNCHANGED attempts

\* cloudtips_poll_job: a run of the poll as a repeating job, with the
\* records it processes counted per order id; the program keeps no such
\* count and no mark on an order, every run treats every record alike
cloudtips_poll_job(order_id, status) ==
    /\ attempts[order_id] < MaxPolls
    /\ payment_record(order_id, status)
    /\ attempts' = [attempts EXCEPT ![order_id] = @ + 1]

\* handle_edit_product_flow repricing the orders of the product as well
edit_price_cascading(tg, pid, price) ==
    /\ tg \notin DOMAIN review_flow
    /\ UNCHANGED <<reviews, review_flow, attempts>>
    /\ IF is_admin_tg(tg) /\ ProductFound(pid)
       THEN /\ products' = [products EXCEPT ![pid].price = price]
            /\ orders' = [i \in 1..Len(orders) |->
                             IF orders[i].product_id = pid
                             THEN [orders[i] EXCEPT !.price = price]
                             ELSE orders[i]]
            /\ reply' = "PriceUpdated"
       ELSE /\ reply' = IF is_admin_tg(tg) THEN "PriceUpdated" ELSE "none"
            /\ UNCHANGED <<products, orders>>
    /\ outbox' = {}
    /\ UNCHANGED <<users, order_workers, worker_payouts, paid_notices>>

\* handle_edit_product_flow in its editing_price stage: the admin's new
\* price for product pid (an UPDATE of a deleted row changes nothing)
handle_edit_product_flow(tg, pid, price) ==
    /\ tg \notin DOMAIN review_flow
    /\ UNCHANGED <<reviews, review_flow, attempts>>
    /\ IF is_admin_tg(tg)
       THEN /\ products' = IF ProductFound(pid)
                           THEN [products EXCEPT ![pid].price = price]
                           ELSE products
            /\ reply' = "PriceUpdated"
       ELSE /\ reply' = "none"
            /\ UNCHANGED products
    /\ outbox' = {}
    /\ UNCHANGED <<users, orders, order_workers, worker_payouts,
                   paid_notices>>

\* delete_callback: the delete:<pid> button
delete_callback(tg, pid) ==
    /\ UNCHANGED <<reviews, review_flow, attempts>>
    /\ IF ~is_admin_tg(tg)
       THEN /\ reply' = "AdminsOnly"
            /\ UNCHANGED products
       ELSE IF ~ProductFound(pid)
       THEN /\ reply' = "ProductNotFound"
            /\ UNCHANGED products
       ELSE /\ products' = [products EXCEPT ![pid].present = FALSE]
            /\ reply' = "ProductDeleted"
    /\ outbox' = {}
    /\ UNCHANGED <<users, orders, order_workers, worker_payouts,
                   paid_notices>>

\* context.user_data['review_flow'] = flow, for the user tg
SetFlow(tg, flow) ==
    [u \in DOMAIN review_flow \cup {tg} |->
        IF u = tg THEN flow ELSE review_flow[u]]

\* context.user_data.pop('review_flow', None), for the user tg
PopFlow(tg) == [u \in DOMAIN review_flow \ {tg} |-> review_flow[u]]

\* leave_review_callback: the leave_review:<id> button
leave_review_callback(tg, oid) ==
    LET workers == WorkersOf(oid)
    IN  /\ IF Len(workers) = 0
           THEN /\ reply' = "NoWorkers"
                /\ UNCHANGED review_flow
           ELSE IF Len(workers) = 1
           THEN /\ review_flow' = SetFlow(tg,
                       [stage |-> "awaiting_rating", order_id |-> oid,
                        worker_id |-> workers[1].worker_id,
                        temp_rating |-> 0, done_workers |-> <<>>])
                /\ reply' = "RateWorker"
           ELSE /\ reply' = "ChooseWorker"
                /\ UNCHANGED review_flow
        /\ outbox' = {}
        /\ UNCHANGED <<users, products, orders, order_workers,
                       worker_payouts, paid_notices, reviews, attempts>>

\* review_worker_callback: the review_worker:<id>:<worker> button
review_worker_callback(tg, oid, wid) ==
    /\ review_flow' = SetFlow(tg,
           [stage |-> "awaiting_rating", order_id |-> oid,
            worker_id |-> wid, temp_rating |-> 0, done_workers |-> <<>>])
    /\ reply' = "RateWorker"
    /\ outbox' = {}
    /\ UNCHANGED <<users, products, orders, order_workers, worker_payouts,
                   paid_notices, reviews, attempts>>

\* the workers of flow.order_id the flow has not reviewed, in row order
remaining_workers(flow, done_workers) ==
    SelectSeq(WorkersOf(flow.order_id),
              LAMBDA w : \A i \in 1..Len(done_workers) :
                            done_workers[i] # w.worker_id)

\* handle_review_flow without the range test of line 393: any text that
\* int() accepts is taken as the rating
handle_review_flow_any_int(tg, text) ==
    LET flow == review_flow[tg]
    IN  /\ tg \in DOMAIN review_flow
        /\ outbox' = {}
        /\ UNCHANGED <<users, products, orders, order_workers,
                       worker_payouts, paid_notices, attempts>>
        /\ IF text = "/cancel"
           THEN /\ review_flow' = PopFlow(tg)
                /\ reply' = "ReviewCancelled"
                /\ UNCHANGED reviews
           ELSE IF flow.stage = "awaiting_rating"
           THEN IF text \notin DOMAIN IntOf
                THEN /\ reply' = "BadRating"
                     /\ UNCHANGED <<review_flow, reviews>>
                ELSE /\ review_flow' = SetFlow(tg,
                            [flow EXCEPT !.temp_rating = IntOf[text],
                                         !.stage = "awaiting_text"])
                     /\ reply' = "AskText"
                     /\ UNCHANGED reviews
           ELSE LET done_workers == Append(flow.done_workers, flow.worker_id)
                    remaining == remaining_workers(flow, done_workers)
                IN  /\ Len(reviews) < MaxReviews
                    /\ reviews' = Append(reviews,
                           [order_id |-> flow.order_id,
                            buyer_id |-> UserRow(tg),
                            worker_id |-> flow.worker_id,
                            rating |-> flow.temp_rating])
                    /\ IF remaining # <<>>
                       THEN /\ review_flow' = SetFlow(tg,
                                   [flow EXCEPT
                                      !.worker_id = remaining[1].worker_id,
                                      !.stage = "awaiting_rating",
                                      !.done_workers = done_workers])
                            /\ reply' = "RateWorker"
                       ELSE /\ review_flow' = PopFlow(tg)
                            /\ reply' = "Thanks"

\* handle_review_flow: a text sent by a user whose review flow is open
handle_review_flow(tg, text) ==
    LET flow == review_flow[tg]
    IN  /\ tg \in DOMAIN review_flow
        /\ outbox' = {}
        /\ UNCHANGED <<users, products, orders, order_workers,
                       worker_payouts, paid_notices, attempts>>
        /\ IF text = "/cancel"
           THEN /\ review_flow' = PopFlow(tg)
                /\ reply' = "ReviewCancelled"
                /\ UNCHANGED reviews
           ELSE IF flow.stage = "awaiting_rating"
           THEN IF text \notin DOMAIN IntOf \/ IntOf[text] \notin 1..5
                THEN /\ reply' = "BadRating"
                     /\ UNCHANGED <<review_flow, reviews>>
                ELSE /\ review_flow' = SetFlow(tg,
                            [flow EXCEPT !.temp_rating = IntOf[text],
                                         !.stage = "awaiting_text"])
                     /\ reply' = "AskText"
                     /\ UNCHANGED reviews
           ELSE LET done_workers == Append(flow.done_workers, flow.worker_id)
                    remaining == remaining_workers(flow, done_workers)
                IN  /\ Len(reviews) < MaxReviews
                    /\ reviews' = Append(reviews,
                           [order_id |-> flow.order_id,
                            buyer_id |-> UserRow(tg),
                            worker_id |-> flow.worker_id,
                            rating |-> flow.temp_rating])
                    /\ IF remaining # <<>>
                       THEN /\ review_flow' = SetFlow(tg,
                                   [flow EXCEPT
                                      !.worker_id = remaining[1].worker_id,
                                      !.stage = "awaiting_rating",
                                      !.done_workers = done_workers])
                            /\ reply' = "RateWorker"
                       ELSE /\ review_flow' = PopFlow(tg)
                            /\ reply' = "Thanks"

\* One step of the application: one update handled, or one polled record,
\* with the inputs drawn from the given sets.
Step(buyers, deciders, decisions, performers, pids, times, stages, polled) ==
    \/ \E tg \in buyers, p \in pids : buy_callback(tg, p)
    \/ \E tg \in buyers, f \in FileIds : payment_photo_handler(tg, f)
    \/ \E tg \in deciders, oid \in OrderIds, a \in decisions :
          admin_decision(tg, oid, a)
    \/ \E tg \in performers, oid \in OrderIds, a \in {"take", "leave"} :
          performer_action(tg, oid, a)
    \/ \E tg \in performers, oid \in OrderIds, s \in stages, t \in times :
          order_progress_callback(tg, oid, s, t)
    \/ \E oid \in OrderIds, s \in polled :
          poll_cloudtips_once(oid, s)

\* Payment and decision: one buyer (3), the two admins and a plain user
\* deciding, an admin and a plain user performing, one clock reading.
Next ==
    Step({3}, {1, 2, 3}, Decisions, {1, 3}, ProductIds, {1}, Stages,
         PaymentStatuses)

Spec == Init /\ [][Next]_vars

\* The slot allocator under contention: every Telegram user may tap take and
\* leave, one admin decides, the stages are those in which an order accepts
\* performers (performer_action reads orders.status and order_workers only).
NextSlots ==
    Step({NumUsers}, {1}, Decisions, TgUsers, ProductIds, {1},
         {"in_progress", "delivering"}, PaymentStatuses)

SpecSlots == Init /\ [][NextSlots]_vars

\* Orders worked to completion: the admin only confirms, an admin and a
\* plain user perform, and every stage up to done is requested.
NextWork ==
    Step({3}, {1}, {"confirm"}, {1, 3}, ProductIds, {1}, Stages,
         PaymentStatuses)

SpecWork == Init /\ [][NextWork]_vars

\* The same with every clock reading of Times, for the timestamps.
NextClock ==
    Step({3}, {1}, {"confirm"}, {1, 3}, ProductIds, Times, Stages,
         PaymentStatuses)

SpecClock == Init /\ [][NextClock]_vars

\* The catalogue under change: an admin (1) or a plain user (3) edits the
\* price of the product or deletes it while an order is bought (for the
\* product or for an id that is in no row), confirmed, taken by the admin
\* and advanced.
NextCatalog ==
    \/ Step({3}, {1}, {"confirm"}, {1}, ProductIds \cup {UnknownPid}, {1},
            Stages, {"paid"})
    \/ \E tg \in {1, 3}, pid \in ProductIds, p \in NewPrices :
          handle_edit_product_flow(tg, pid, p)
    \/ \E tg \in {1, 3}, pid \in ProductIds : delete_callback(tg, pid)

SpecCatalog == Init /\ [][NextCatalog]_vars

\* Orders worked to completion by a process that may stop in the middle of
\* an advance to done and be started again.
NextCrash ==
    \/ NextWork
    \/ \E tg \in {1, 3}, oid \in OrderIds, k \in 0..MAX_WORKERS_PER_ORDER :
          order_progress_stopped(tg, oid, 1, k)

SpecCrash == Init /\ [][NextCrash]_vars

\* The poll run as a repeating job: a buyer (3) buys and sends the
\* screenshot, an admin (1) decides, and the job processes a record of the
\* payment list for the order, of any status.
NextPoll ==
    \/ \E tg \in {3}, p \in ProductIds : buy_callback(tg, p)
    \/ \E tg \in {3}, f \in FileIds : payment_photo_handler(tg, f)
    \/ \E tg \in {1}, oid \in OrderIds, a \in Decisions :
          admin_decision(tg, oid, a)
    \/ \E oid \in OrderIds, s \in PaymentStatuses :
          cloudtips_poll_job(oid, s)

SpecPoll == Init /\ [][NextPoll]_vars

\* The application as build_app builds it, used by users who are no admins
\* (3 buys, 3 and 4 tap the buttons and write): every handler of the model
\* that build_app registers.  build_app registers no job, nothing calls
\* cloudtips_poll_job or poll_cloudtips_once, so the poll is no step of the
\* running application.  The application handles the updates it is sent:
\* weak fairness of the step.
NextBuilt ==
    \/ \E tg \in {3}, p \in ProductIds : buy_callback(tg, p)
    \/ \E tg \in {3}, f \in FileIds : payment_photo_handler(tg, f)
    \/ \E tg \in {3, 4}, oid \in OrderIds, a \in Decisions :
          admin_decision(tg, oid, a)
    \/ \E tg \in {3, 4}, oid \in OrderIds, a \in {"take", "leave"} :
          performer_action(tg, oid, a)
    \/ \E tg \in {3, 4}, oid \in OrderIds, s \in Stages, t \in Clock :
          order_progress_callback(tg, oid, s, t)
    \/ \E tg \in {3, 4}, oid \in OrderIds : leave_review_callback(tg, oid)
    \/ \E tg \in {3, 4}, oid \in OrderIds, wid \in {4} :
          review_worker_callback(tg, oid, wid)
    \/ \E tg \in {3, 4}, text \in Texts : handle_review_flow(tg, text)

SpecBuilt == Init /\ [][NextBuilt]_vars /\ WF_vars(NextBuilt)

\* Reviews: the order of buyer 3 is confirmed by admin 1, taken by 1 and 4
\* and set done.  The buyer taps the buttons the bot has sent: leave_review
\* of the prompt that follows done, and review_worker of the list of the
\* order's workers.  User 5, who has no order, sends either callback with
\* any order id and worker id at any time.  Both write texts.
NextReview ==
    \/ Step({3}, {1}, {"confirm"}, {1, 4}, ProductIds, {1}, {"done"},
            {"paid"})
    \/ \E oid \in OrderIds :
          /\ oid \in 1..Len(orders)
          /\ orders[oid].status = "done"
          /\ \/ leave_review_callback(3, oid)
             \/ \E wid \in WorkerIds(oid) :
                   review_worker_callback(3, oid, wid)
    \/ \E oid \in OrderIds : leave_review_callback(5, oid)
    \/ \E oid \in OrderIds, wid \in {1, 4} :
          review_worker_callback(5, oid, wid)
    \/ \E tg \in {3, 5}, text \in Texts : handle_review_flow(tg, text)

SpecReview == Init /\ [][NextReview]_vars

\* Screenshots: two buyers (3, 4), a table of orders of up to ManyOrders
\* rows, two different screenshots, and admin 1 rejecting any order.
ManyOrders == MaxOrders + 2

NextEvidence ==
    \/ \E tg \in {3, 4}, p \in ProductIds : buy_order(tg, p, ManyOrders)
    \/ \E tg \in {3, 4}, f \in Screenshots : payment_photo_handler(tg, f)
    \/ \E oid \in 1..ManyOrders : admin_decision(1, oid, "reject")

SpecEvidence == Init /\ [][NextEvidence]_vars

\* The review collector used as the bot offers it: the order of buyer 3 is
\* confirmed by admin 1, taken by 1 and 4 and set done; the buyer taps the
\* buttons the bot has sent for the done order and writes texts, among
\* them ratings below and above the range.
RatingTexts == Texts \cup {"0"}

NextCollect ==
    \/ \E p \in ProductIds : buy_callback(3, p)
    \/ \E f \in FileIds : payment_photo_handler(3, f)
    \/ \E oid \in OrderIds : admin_decision(1, oid, "confirm")
    \/ \E tg \in {1, 4}, oid \in OrderIds, a \in {"take", "leave"} :
          performer_action(tg, oid, a)
    \/ \E oid \in OrderIds, t \in Clock :
          order_progress_callback(1, oid, "done", t)
    \/ \E oid \in OrderIds :
          /\ oid \in 1..Len(orders)
          /\ orders[oid].status = "done"
          /\ \/ leave_review_callback(3, oid)
             \/ \E wid \in WorkerIds(oid) :
                   review_worker_callback(3, oid, wid)
    \/ \E text \in RatingTexts : handle_review_flow(3, text)

SpecCollect == Init /\ [][NextCollect]_vars

\* The stages of an order: admin 1 confirms or rejects and requests every
\* stage of the keyboard and one the keyboard does not offer (the stage is
\* the text after the second colon of the callback data), while an admin
\* (1) and a plain user (4) tap take and leave.
RequestedStages == Stages \cup {"archived"}

NextStages ==
    \/ \E p \in ProductIds : buy_callback(3, p)
    \/ \E f \in FileIds : payment_photo_handler(3, f)
    \/ \E oid \in OrderIds, a \in Decisions : admin_decision(1, oid, a)
    \/ \E tg \in {1, 4}, oid \in OrderIds, a \in {"take", "leave"} :
          performer_action(tg, oid, a)
    \/ \E oid \in OrderIds, s \in RequestedStages, t \in Clock :
          order_progress_callback(1, oid, s, t)

SpecStages == Init /\ [][NextStages]_vars

----------------------------------------------------------------------------
\* Properties.

Existing == 1..Len(orders)
Open == {"paid", "in_progress", "delivering"}
RowsOf(oid, w) ==
    {i \in 1..Len(order_workers) :
        order_workers[i].order_id = oid /\ order_workers[i].worker_id = w}
\* the statuses of an order whose payment is not decided
Unresolved == {"awaiting_screenshot", "pending_verification"}

PayoutRowsOf(oid, w) ==
    {i \in 1..Len(worker_payouts) :
        worker_payouts[i].order_id = oid /\ worker_payouts[i].worker_id = w}
RECURSIVE SumAmounts(_)
SumAmounts(rows) ==
    IF rows = <<>> THEN 0 ELSE Head(rows).amount + SumAmounts(Tail(rows))
Abs(x) == IF x < 0 THEN -x ELSE x
\* the buyer has submitted evidence for the order
Verified(o) == orders[o].payment_screenshot_file_id # NULL
\* ... and an admin or the poller has confirmed the payment since
Settled(o) ==
    Verified(o) /\ orders[o].admin_notes[1] \in {"confirm", "cloudtips"}

\* every order has at most MAX_WORKERS_PER_ORDER rows in order_workers
SlotsWithinCap ==
    \A o \in Existing : Len(WorkersOf(o)) <= MAX_WORKERS_PER_ORDER

\* C1: no step leaves an order with more than MAX_WORKERS_PER_ORDER rows in
\* order_workers, and of the takes by users not yet on an open order each one
\* made while a slot is free inserts exactly one row, and each one made when
\* the slots are full answers SlotsExhausted and inserts nothing (so of K
\* takes by distinct users exactly MAX_WORKERS_PER_ORDER succeed).
C1_SlotsNeverExceeded ==
    [][/\ SlotsWithinCap'
       /\ \A tg \in TgUsers, o \in Existing :
            (/\ orders[o].status \in Open
             /\ tg \notin WorkerIds(o)
             /\ performer_action(tg, o, "take"))
            => IF Len(WorkersOf(o)) < MAX_WORKERS_PER_ORDER
               THEN /\ reply' = "Taken"
                    /\ order_workers' = Append(order_workers,
                           [order_id |-> o, worker_id |-> tg])
               ELSE /\ reply' = "SlotsExhausted"
                    /\ order_workers' = order_workers]_vars

\* C1 witness: the slots of an order are full and a further take was refused.
C1_Witness ==
    /\ reply = "SlotsExhausted"
    /\ \E o \in Existing : Len(WorkersOf(o)) = MAX_WORKERS_PER_ORDER

\* C2: an order that is done and has assigned workers has exactly one payout
\* row per assigned worker and no other payout row, however often it was
\* advanced to done, and the rows add up to round(price * WORKER_PERCENT, 2)
\* up to the rounding of the shares. Stated for orders whose payment was
\* verified and confirmed.
C2_PayoutsWrittenOnce ==
    \A o \in Existing :
        (orders[o].status = "done" /\ Len(WorkersOf(o)) >= 1 /\ Settled(o))
        => /\ Len(PayoutsOf(o)) = Len(WorkersOf(o))
           /\ \A w \in WorkerIds(o) : Cardinality(PayoutRowsOf(o, w)) = 1
           /\ Abs(SumAmounts(PayoutsOf(o))
                  - RoundDiv(orders[o].price * WORKER_PERCENT, 100))
              <= Len(WorkersOf(o))

\* C3: a poll that reports paid for an order an admin has rejected (after
\* its evidence was submitted) leaves the order rejected.
C3_PollKeepsRejected ==
    [][\A o \in Existing :
          (/\ poll_cloudtips_once(o, "paid")
           /\ orders[o].status = "rejected"
           /\ orders[o].admin_notes[1] = "reject"
           /\ Verified(o))
          => orders'[o].status = "rejected"]_vars

\* C4: an admin confirm of an order that an admin confirm has already made
\* paid (from its submitted evidence) changes no stored row: orders (status,
\* notes, timestamps), order_workers and worker_payouts stay as they were.
C4_SecondConfirmNoOp ==
    [][\A tg \in ADMIN_IDS, o \in Existing :
          (/\ admin_decision(tg, o, "confirm")
           /\ orders[o].status = "paid"
           /\ orders[o].admin_notes[1] = "confirm"
           /\ Verified(o))
          => UNCHANGED <<orders, order_workers, worker_payouts>>]_vars

\* C5: whatever the admins and the poller do with an order whose evidence
\* was submitted, its buyer is told at most once that the payment is
\* confirmed.
C5_PaidNoticeAtMostOnce ==
    \A o \in Existing : Verified(o) => paid_notices[o] <= 1

C7_TerminalIsFinal ==
    [][\A o \in Existing :
          (orders[o].status \in {"rejected", "done"} /\ Verified(o))
          => orders'[o].status = orders[o].status]_vars

\* C8 as stated: a take by a user who already holds a row for the order
\* (a verified and confirmed one) answers AlreadyClaimed and leaves
\* order_workers unchanged.
C8_AlreadyClaimedAlways ==
    [][\A tg \in TgUsers, o \in Existing :
          (/\ performer_action(tg, o, "take")
           /\ tg \in WorkerIds(o)
           /\ Settled(o))
          => /\ reply' = "AlreadyClaimed"
             /\ order_workers' = order_workers]_vars

\* C8 amended: a take by a user who already holds a row for an order that is
\* paid, in_progress or delivering answers AlreadyClaimed; for an order in
\* any other status it answers InvalidState; either way order_workers is
\* unchanged.
C8_AlreadyClaimedWhileOpen ==
    [][\A tg \in TgUsers, o \in Existing :
          (performer_action(tg, o, "take") /\ tg \in WorkerIds(o))
          => /\ reply' = IF orders[o].status \in Open
                         THEN "AlreadyClaimed" ELSE "InvalidState"
             /\ order_workers' = order_workers]_vars

\* C8 witness: a user holding a row of an order in progress was answered
\* AlreadyClaimed.
C8_Witness ==
    /\ reply = "AlreadyClaimed"
    /\ \E o \in Existing :
          WorkerIds(o) # {} /\ orders[o].status = "in_progress"

\* C9: order_workers never holds two rows for the same order and worker.
C9_OneRowPerWorker ==
    \A o \in Existing, w \in TgUsers : Cardinality(RowsOf(o, w)) <= 1

\* C9 witness: a worker who holds a row tapped take again, and a second
\* worker holds a row of the same order.
C9_Witness ==
    /\ reply = "AlreadyClaimed"
    /\ \E o \in Existing : Cardinality(WorkerIds(o)) >= 2

\* C10: once an order (verified, confirmed and now in_progress) has a start
\* timestamp, no later step changes it: a second advance to in_progress
\* leaves started_at as the first one set it.
C10_StartedAtStampedOnce ==
    [][\A o \in Existing :
          (/\ orders[o].started_at # NULL
           /\ orders[o].status = "in_progress"
           /\ Settled(o))
          => orders'[o].started_at = orders[o].started_at]_vars

\* C11: an admin confirm of an order whose payment was already confirmed
\* and whose status is not pending_verification (it is paid, in_progress,
\* delivering or done) leaves the order's status unchanged.
C11_ConfirmOnlyFromPending ==
    [][\A tg \in ADMIN_IDS, o \in Existing :
          (/\ admin_decision(tg, o, "confirm")
           /\ Settled(o)
           /\ orders[o].status # "pending_verification")
          => orders'[o].status = orders[o].status]_vars

\* C12: an admin reject of an order whose payment was already confirmed and
\* whose status is not pending_verification (it is paid, in_progress,
\* delivering or done) leaves the order's status unchanged.
C12_RejectOnlyFromPending ==
    [][\A tg \in ADMIN_IDS, o \in Existing :
          (/\ admin_decision(tg, o, "reject")
           /\ Settled(o)
           /\ orders[o].status # "pending_verification")
          => orders'[o].status = orders[o].status]_vars

\* C13: a progress change requested for an order (with submitted evidence)
\* whose status is not paid, in_progress or delivering leaves the order's
\* status unchanged.
C13_AdvanceOnlyWhileOpen ==
    [][\A tg \in TgUsers, o \in Existing, s \in Stages, t \in Times :
          (/\ order_progress_callback(tg, o, s, t)
           /\ Verified(o)
           /\ orders[o].status \notin Open)
          => orders'[o].status = orders[o].status]_vars

\* C14: a progress change requested by a user who is neither an admin nor
\* a worker holding a row of the order is answered Unauthorized and changes
\* nothing: orders (status, timestamps), order_workers and worker_payouts
\* stay as they were and no message is sent.
C14_UnauthorizedChangesNothing ==
    [][\A tg \in TgUsers \ ADMIN_IDS, o \in Existing :
          tg \notin WorkerIds(o)
          => \A s \in Stages, t \in Clock :
                order_progress_callback(tg, o, s, t)
                => /\ reply' = "Unauthorized"
                   /\ outbox' = {}
                   /\ UNCHANGED <<orders, order_workers, worker_payouts,
                                  paid_notices>>]_vars

\* C14 witness: a confirmed order open for work has a worker, and a user
\* who is neither that worker nor an admin was answered Unauthorized.
C14_Witness ==
    /\ reply = "Unauthorized"
    /\ \E o \in Existing :
          /\ Settled(o)
          /\ orders[o].status \in Open
          /\ WorkerIds(o) # {}
          /\ \E tg \in TgUsers \ ADMIN_IDS : tg \notin WorkerIds(o)

\* C15: a poll that reports paid for an order whose payment was confirmed
\* and whose status is paid, in_progress, delivering or done leaves the
\* order's row (status, notes) unchanged and sends the buyer nothing.
C15_PollNeverRegresses ==
    [][\A o \in Existing :
          (/\ poll_cloudtips_once(o, "paid")
           /\ Settled(o)
           /\ orders[o].status \in {"paid", "in_progress", "delivering",
                                    "done"})
          => /\ orders'[o] = orders[o]
             /\ paid_notices' = paid_notices]_vars

\* C16: of an order whose payment was confirmed, payout rows exist only
\* while its status is done, and once it has payout rows no step adds,
\* removes or rewrites one.
C16_PayoutsOnlyWithDone ==
    [][\A o \in Existing :
          Settled(o)
          => /\ PayoutsOf(o)' # <<>> => orders'[o].status = "done"
             /\ PayoutsOf(o) # <<>> => PayoutsOf(o)' = PayoutsOf(o)]_vars

\* the payout rows of order o: one per row of order_workers, in that order,
\* each of round(round(price * WORKER_PERCENT, 2) / N, 2)
ExpectedPayouts(o) ==
    LET ws == WorkersOf(o)
        share == RoundDiv(orders[o].price * WORKER_PERCENT, 100)
    IN  [i \in 1..Len(ws) |->
            [order_id |-> o, worker_id |-> ws[i].worker_id,
             amount |-> RoundDiv(share, Len(ws))]]

\* C17: when an admin or a worker of the order advances to done an order
\* (confirmed, not yet done, without payout rows) that has N >= 1 workers,
\* exactly N payout rows are written, one per worker, each of
\* round(round(P * WORKER_PERCENT, 2) / N, 2); for P = 300.00 and N = 2 each
\* row is 105.00 and the rows add up to 210.00.
C17_FirstDonePaysEachWorker ==
    [][\A tg \in TgUsers, o \in Existing :
          (/\ tg \in WorkerIds(o) \/ is_admin_tg(tg)
           /\ Settled(o)
           /\ orders[o].status # "done"
           /\ PayoutsOf(o) = <<>>
           /\ Len(WorkersOf(o)) >= 1
           /\ \E t \in Clock : order_progress_callback(tg, o, "done", t))
          => /\ PayoutsOf(o)' = ExpectedPayouts(o)
             /\ (orders[o].price = 30000 /\ Len(WorkersOf(o)) = 2)
                => /\ \A i \in 1..2 : PayoutsOf(o)'[i].amount = 10500
                   /\ SumAmounts(PayoutsOf(o)') = 21000]_vars

\* C18: an advance to done of an order without workers writes no payout
\* row and the owner is sent a message (that no performer was found, or,
\* when the order's product is deleted, the error report of the handler
\* that raised); and only the handling of a status:<id>:done request ever
\* writes a payout row, so the payout is not made later on its own.
C18_NoWorkersNoPayout ==
    [][/\ \A tg \in ADMIN_IDS, o \in Existing :
            (/\ WorkersOf(o) = <<>>
             /\ \E t \in Clock : order_progress_callback(tg, o, "done", t))
            => /\ worker_payouts' = worker_payouts
               /\ IF HasProduct(o)
                  THEN "OwnerNoWorkers" \in outbox'
                  ELSE "OwnerError" \in outbox'
       /\ worker_payouts' # worker_payouts
            => \E tg \in TgUsers, o \in Existing, t \in Clock :
                  order_progress_callback(tg, o, "done", t)]_vars

\* C18 witness: a confirmed order without workers is done, has no payout
\* row, and the owner was told that no performer was found.
C18_Witness ==
    /\ "OwnerNoWorkers" \in outbox
    /\ \E o \in Existing :
          /\ Settled(o)
          /\ orders[o].status = "done"
          /\ WorkersOf(o) = <<>>
          /\ PayoutsOf(o) = <<>>

\* C19: when the process stopped in an advance to done of a confirmed order
\* with workers (its status is written, of its payout rows none, some or
\* all), the next status:<id>:done request leaves exactly one payout row
\* per worker of the order: missing rows are written, rows that exist are
\* not written again.
C19_PayoutResumesAfterStop ==
    [][\A tg \in TgUsers, o \in Existing :
          (/\ reply = "none"
           /\ orders[o].status = "done"
           /\ Settled(o)
           /\ Len(WorkersOf(o)) >= 1
           /\ tg \in WorkerIds(o) \/ is_admin_tg(tg)
           /\ \E t \in Clock : order_progress_callback(tg, o, "done", t))
          => /\ Len(PayoutsOf(o)') = Len(WorkersOf(o))
             /\ \A w \in WorkerIds(o) :
                   Cardinality(PayoutRowsOf(o, w)') = 1]_vars

\* C20: a new order carries the price its product has at that moment, and
\* no step changes the price of an order that exists, whether it edits the
\* product's price, deletes the product or does anything else.
C20_PriceFixedAtCreation ==
    [][/\ Len(orders') >= Len(orders)
       /\ \A o \in Existing : orders'[o].price = orders[o].price
       /\ \A n \in (1..Len(orders')) \ Existing :
             /\ ProductFound(orders'[n].product_id)
             /\ orders'[n].price = products[orders'[n].product_id].price]_vars

\* C20 witness: the product of an order was repriced and then deleted, and
\* the order still carries the price it was bought at.
C20_Witness ==
    \E o \in Existing :
        /\ ~HasProduct(o)
        /\ products[orders[o].product_id].price \in NewPrices
        /\ orders[o].price \in Prices

\* C21: a buy for a product that is in the table appends exactly one order,
\* of the buyer, for that product, with status awaiting_screenshot and the
\* price the product has at that moment, and leaves the other orders as
\* they were; a buy for an id that is in no row (never entered, or deleted)
\* is answered ProductNotFound and adds no order.
C21_BuyCreatesOneOrder ==
    [][\A tg \in TgUsers, pid \in ProductIds \cup {UnknownPid} :
          buy_callback(tg, pid)
          => IF ProductFound(pid)
             THEN /\ Len(orders') = Len(orders) + 1
                  /\ SubSeq(orders', 1, Len(orders)) = orders
                  /\ LET n == orders'[Len(orders')]
                     IN  /\ n.status = "awaiting_screenshot"
                         /\ n.price = products[pid].price
                         /\ n.product_id = pid
                         /\ users'[n.user_id] = tg
                         /\ n.payment_screenshot_file_id = NULL
             ELSE /\ orders' = orders
                  /\ reply' = "ProductNotFound"]_vars

\* C21 witness: an order was created, and a later buy for an id that is in
\* no row was refused.
C21_Witness ==
    /\ reply = "ProductNotFound"
    /\ \E o \in Existing : orders[o].price \in Prices

\* C22: a photo from a user who has an order awaiting its screenshot moves
\* one such order of that user to pending_verification and stores the file
\* id in it, changing nothing else of the orders; a photo from a user who
\* has no order in that status changes no order.
C22_EvidenceOnlyWhenAwaiting ==
    [][\A tg \in TgUsers, f \in FileIds :
          payment_photo_handler(tg, f)
          => LET aw == {o \in Existing :
                           /\ UserRow(tg) # 0
                           /\ orders[o].user_id = UserRow(tg)
                           /\ orders[o].status = "awaiting_screenshot"}
             IN  IF aw = {}
                 THEN orders' = orders
                 ELSE \E o \in aw :
                         orders' = [orders EXCEPT
                            ![o].status = "pending_verification",
                            ![o].payment_screenshot_file_id = f]]_vars

\* C22 witness: a buyer whose order already holds a screenshot and is no
\* longer awaiting one sent a photo again.
C22_Witness ==
    /\ reply = "NoAwaitingOrder"
    /\ \E o \in Existing :
          /\ Verified(o)
          /\ orders[o].status # "awaiting_screenshot"

\* C23: a take of an order whose status is not paid, in_progress or
\* delivering is answered InvalidState and inserts no row; a take of an
\* order in one of these statuses is not answered InvalidState.
C23_TakeNeedsOpenOrder ==
    [][\A tg \in TgUsers, o \in Existing :
          performer_action(tg, o, "take")
          => IF orders[o].status \in Open
             THEN reply' # "InvalidState"
             ELSE /\ reply' = "InvalidState"
                  /\ order_workers' = order_workers]_vars

\* C23 witness: a request on a confirmed order that is done, or that is
\* not yet confirmed, was answered InvalidState.
C23_Witness ==
    /\ reply = "InvalidState"
    /\ \E o \in Existing :
          /\ Verified(o)
          /\ orders[o].status \in {"pending_verification", "done"}

\* C24 as stated: a leave by a user who holds a row of the order (a
\* confirmed one) removes that user's row and no other, whatever the
\* order's status.
C24_LeaveAlwaysRemoves ==
    [][\A tg \in TgUsers, o \in Existing :
          (/\ tg \in WorkerIds(o)
           /\ Settled(o)
           /\ performer_action(tg, o, "leave"))
          => order_workers' = SelectSeq(order_workers,
                 LAMBDA r : ~(r.order_id = o /\ r.worker_id = tg))]_vars

\* C24 amended: a leave of an order that is paid, in_progress or delivering
\* is answered NotAssigned and changes nothing when the user holds no row
\* of the order, and otherwise removes that user's row of the order and no
\* other row; a leave of an order in any other status is answered
\* InvalidState and changes nothing, whether the user holds a row or not.
C24_LeaveWhileOpen ==
    [][\A tg \in TgUsers, o \in Existing :
          performer_action(tg, o, "leave")
          => IF orders[o].status \notin Open
             THEN /\ reply' = "InvalidState"
                  /\ order_workers' = order_workers
             ELSE IF tg \notin WorkerIds(o)
             THEN /\ reply' = "NotAssigned"
                  /\ order_workers' = order_workers
             ELSE /\ reply' = "Left"
                  /\ order_workers' = SelectSeq(order_workers,
                         LAMBDA r : ~(r.order_id = o /\ r.worker_id = tg))
          ]_vars

\* C24 witness: of two workers of an order one has left and the other
\* still holds the row.
C24_Witness ==
    /\ reply = "Left"
    /\ \E o \in Existing : Cardinality(WorkerIds(o)) = 1

\* C25: when the job processes a record with status failed for an order
\* that is awaiting_screenshot or pending_verification, the order becomes
\* rejected.
C25_FailedRejects ==
    [][\A o \in Existing :
          (/\ orders[o].status \in Unresolved
           /\ cloudtips_poll_job(o, "failed"))
          => orders'[o].status = "rejected"]_vars

\* C26: a record with status pending or unknown makes no transition, and
\* once the records processed for an undecided order have reached a budget
\* below MaxPolls, the job processes no further pending or unknown record
\* for that order.
C26_RetryBudgetEnds ==
    [][\A o \in Existing, s \in {"pending", "unknown"} :
          /\ cloudtips_poll_job(o, s) => orders'[o] = orders[o]
          /\ (/\ orders[o].status \in Unresolved
              /\ attempts[o] >= MaxPolls - 1)
             => ~cloudtips_poll_job(o, s)]_vars

\* C27: an order that is awaiting_screenshot or pending_verification
\* eventually has status paid in the running application, with no admin
\* acting.
C27_PollEventuallyPays ==
    \A o \in OrderIds :
       (o \in Existing /\ orders[o].status \in Unresolved)
       ~> (o \in Existing /\ orders[o].status = "paid")

\* C28: for every order (paid for and confirmed) and worker, at most one
\* review row written by the order's buyer exists for the pair.
C28_OneReviewPerWorker ==
    \A o \in Existing, w \in TgUsers :
       Settled(o) =>
       Cardinality({i \in 1..Len(reviews) :
                      /\ reviews[i].order_id = o
                      /\ reviews[i].worker_id = w
                      /\ reviews[i].buyer_id = orders[o].user_id}) <= 1

\* C29: a review row is written only for an order that is done, by the
\* user who bought it, for a worker who holds a row of the order.
C29_ReviewOnlyByBuyerOfDone ==
    [][Len(reviews') > Len(reviews)
       => LET r == reviews'[Len(reviews')]
          IN  /\ r.order_id \in Existing
              /\ orders[r.order_id].status = "done"
              /\ r.buyer_id = orders[r.order_id].user_id
              /\ r.worker_id \in WorkerIds(r.order_id)]_vars

\* C30: once an order (paid for and confirmed) is done and done_at is set,
\* no step changes done_at.
C30_DoneAtStampedOnce ==
    [][\A o \in Existing :
          (/\ orders[o].status = "done"
           /\ orders[o].done_at # NULL
           /\ Settled(o))
          => orders'[o].done_at = orders[o].done_at]_vars

\* C31: once an order (paid for and confirmed) has been set done with
\* workers assigned, which its done_at and its payout rows record, no step
\* adds or removes a row of order_workers for that order.
C31_WorkersFrozenAfterDone ==
    [][\A o \in Existing :
          (/\ orders[o].done_at # NULL
           /\ PayoutsOf(o) # <<>>
           /\ Settled(o))
          => WorkersOf(o)' = WorkersOf(o)]_vars

\* C32: a photo sent by a buyer who has no order awaiting the screenshot
\* and whose latest order is pending_verification replaces that order's
\* stored file id by the new one, leaves its status, and posts nothing to
\* the admin group.
C32_ResubmissionOverwrites ==
    [][\A tg \in TgUsers, f \in Screenshots :
          LET own == {i \in Existing : /\ UserRow(tg) # 0
                                       /\ orders[i].user_id = UserRow(tg)}
          IN  (/\ own # {}
               /\ \A i \in own : orders[i].status # "awaiting_screenshot"
               /\ payment_photo_handler(tg, f))
              => LET o == CHOOSE i \in own : \A j \in own : j <= i
                 IN  orders[o].status = "pending_verification"
                     => /\ orders'[o].payment_screenshot_file_id = f
                        /\ orders'[o].status = "pending_verification"
                        /\ "AdminGroupOrder" \notin outbox']_vars

\* C39: a photo sent by a buyer changes one order, the latest of the
\* buyer's orders that await the screenshot (it takes the file id and
\* becomes pending_verification), and leaves every other order as it was;
\* with no such order it changes no order.
C39_EvidenceTouchesOneOrder ==
    [][\A tg \in TgUsers, f \in Screenshots :
          payment_photo_handler(tg, f)
          => LET aw == {i \in Existing :
                          /\ UserRow(tg) # 0
                          /\ orders[i].user_id = UserRow(tg)
                          /\ orders[i].status = "awaiting_screenshot"}
             IN  /\ Len(orders') = Len(orders)
                 /\ IF aw = {}
                    THEN orders' = orders
                    ELSE LET o == CHOOSE i \in aw : \A j \in aw : j <= i
                         IN  /\ orders'[o] = [orders[o] EXCEPT
                                  !.payment_screenshot_file_id = f,
                                  !.status = "pending_verification"]
                             /\ \A i \in Existing \ {o} :
                                   orders'[i] = orders[i]]_vars

\* C39 witness: a buyer with two orders has sent one photo: the later order
\* took it and the earlier one still awaits the screenshot, next to an
\* order of another buyer.
C39_Witness ==
    /\ reply = "SentToAdmins"
    /\ \E i, j, k \in Existing :
          /\ i < j
          /\ orders[i].user_id = orders[j].user_id
          /\ orders[i].status = "awaiting_screenshot"
          /\ orders[j].status = "pending_verification"
          /\ orders[k].user_id # orders[i].user_id

\* C33: every stored review has a rating in 1..5, and a text sent in the
\* awaiting_rating stage that is no number, or a number outside 1..5,
\* writes no review row and leaves the flow as it is (same stage, same
\* worker).
C33_RatingInRange ==
    [][/\ \A i \in 1..Len(reviews') : reviews'[i].rating \in 1..5
       /\ \A tg \in DOMAIN review_flow, text \in RatingTexts \ {"/cancel"} :
             (/\ review_flow[tg].stage = "awaiting_rating"
              /\ (text \notin DOMAIN IntOf \/ IntOf[text] \notin 1..5)
              /\ handle_review_flow(tg, text))
             => /\ reviews' = reviews
                /\ review_flow' = review_flow
                /\ reply' = "BadRating"]_vars

\* C33 witness: with a review already stored, a rating was refused and the
\* flow still awaits the rating.
C33_Witness ==
    /\ reply = "BadRating"
    /\ reviews # <<>>
    /\ \E tg \in DOMAIN review_flow :
          review_flow[tg].stage = "awaiting_rating"

\* C34: the collector never asks for the rating of a worker who already has
\* a review for the order: when a step of the buyer of a done order (paid
\* for and confirmed) opens or advances the buyer's flow to awaiting_rating
\* for a worker, the table holds no review of that order and worker.
C34_NoPromptForReviewedWorker ==
    [][\A tg \in DOMAIN review_flow' :
          LET flow == review_flow'[tg]
          IN  (/\ reply' = "RateWorker"
               /\ flow.stage = "awaiting_rating"
               /\ (tg \notin DOMAIN review_flow \/ review_flow[tg] # flow)
               /\ flow.order_id \in Existing
               /\ Settled(flow.order_id))
              => \A i \in 1..Len(reviews') :
                    ~(/\ reviews'[i].order_id = flow.order_id
                      /\ reviews'[i].worker_id = flow.worker_id)]_vars

\* C35: a confirm or reject by a user who is no admin changes no table (the
\* order keeps its status and notes) and sends nothing to the buyer; the
\* user is told that only admins decide.
C35_NonAdminDecisionNoOp ==
    [][\A tg \in TgUsers \ ADMIN_IDS, o \in OrderIds, a \in Decisions :
          admin_decision(tg, o, a)
          => /\ orders' = orders
             /\ UNCHANGED <<users, products, order_workers, worker_payouts,
                            paid_notices, reviews>>
             /\ outbox' = {}
             /\ reply' = "AdminsOnly"]_vars

\* C35 witness: a user who is no admin was refused while an order with its
\* screenshot waits for the decision.
C35_Witness ==
    /\ reply = "AdminsOnly"
    /\ \E o \in Existing :
          /\ Verified(o)
          /\ orders[o].status = "pending_verification"

\* C36: of an order (paid for and confirmed) that is done, the workers who
\* have payout rows are the workers who hold a row of order_workers (a done
\* order accepts no take and no leave, so these are the workers it had when
\* done was written).
C36_PayoutsMatchAssignments ==
    \A o \in Existing :
       (orders[o].status = "done" /\ Settled(o))
       => {PayoutsOf(o)[i].worker_id : i \in 1..Len(PayoutsOf(o))}
             = WorkerIds(o)

\* C37: a take or a leave, accepted or refused, leaves every row of orders
\* as it was (status, price, buyer, file id, started_at, done_at) and writes
\* no row of worker_payouts and none of reviews.
C37_PerformerLeavesOrderAlone ==
    [][\A tg \in TgUsers, o \in OrderIds, a \in {"take", "leave"} :
          performer_action(tg, o, a)
          => /\ orders' = orders
             /\ worker_payouts' = worker_payouts
             /\ reviews' = reviews]_vars

\* C37 witness: a second worker has taken an order (paid for and
\* confirmed) that is still paid.
C37_Witness ==
    /\ reply = "Taken"
    /\ \E o \in Existing :
          /\ Settled(o)
          /\ orders[o].status = "paid"
          /\ Cardinality(WorkerIds(o)) = 2

\* C38: while the status of an order is not paid, in_progress or
\* delivering, every take and every leave of it is answered InvalidState
\* and order_workers is unchanged, also for a leave by a user who holds a
\* row of the order.
C38_ClosedOrderRefusesPerformers ==
    [][\A tg \in TgUsers, o \in Existing, a \in {"take", "leave"} :
          (/\ orders[o].status \notin Open
           /\ performer_action(tg, o, a))
          => /\ reply' = "InvalidState"
             /\ order_workers' = order_workers]_vars

\* C38 witness: a request on a rejected order that has a worker was
\* answered InvalidState.
C38_Witness ==
    /\ reply = "InvalidState"
    /\ \E o \in Existing :
          /\ orders[o].status = "rejected"
          /\ WorkerIds(o) # {}

\* C40: the status of every order (stated for those paid for and
\* confirmed) is one of awaiting_screenshot, pending_verification, paid,
\* rejected, in_progress, delivering, done.
C40_StatusInLifecycle ==
    \A o \in Existing :
       Settled(o) =>
       orders[o].status \in {"awaiting_screenshot", "pending_verification",
                             "paid", "rejected", "in_progress",
                             "delivering", "done"}
====
